---- MODULE Spec2Model ----
(***************************************************************************)
(* BAC.EVENTS: the extraction pipeline (utils/event_scraper.py), the       *)
(* weather enrichment run (utils/api.py) and the two routes that call      *)
(* them, over the two tables external_events and api_data.                 *)
(*                                                                         *)
(* Strings that the code formats and parses are modelled by their          *)
(* characters: a date string is the sequence of its "-"-separated fields,  *)
(* each field the sequence of its decimal digits, so "2025-12-02" is       *)
(* <<<<2,0,2,5>>, <<1,2>>, <<0,2>>>> and "" is <<>>.                       *)
(***************************************************************************)
EXTENDS Integers, Sequences, FiniteSets, TLC

VARIABLES
    external_events,  \* committed rows of table external_events
    api_data,         \* committed rows of table api_data
    conn,             \* the running operation's connection: "closed" | "open"
    cur_events,       \* external_events as the open connection sees it
    cur_api,          \* api_data as the open connection sees it
    pc,               \* position of the request being served
    run,              \* what the current (or last) operation did so far
    scrapes,          \* scrape_all calls made so far
    pad_year          \* whether the C library's %Y zero-pads years below 1000

vars == <<external_events, api_data, conn, cur_events, cur_api, pc, run,
          scrapes, pad_year>>

(***************************** bounds **************************************)
MaxEvents == 2     \* rows of external_events
MaxObs == 2        \* rows of api_data
MaxScrapes == 2    \* scrape_all calls

(***************************** dates ***************************************)
None == [some |-> FALSE, val |-> <<>>]
Some(v) == [some |-> TRUE, val |-> v]

IsLeap(y) == (y % 4 = 0 /\ y % 100 # 0) \/ y % 400 = 0

DaysIn(y, m) ==
    IF m \in {4, 6, 9, 11} THEN 30
    ELSE IF m = 2 THEN (IF IsLeap(y) THEN 29 ELSE 28)
    ELSE 31

\* datetime(year, month, day) accepts exactly these (MINYEAR 1, MAXYEAR 9999)
ValidYMD(y, m, d) ==
    /\ y \in 1..9999
    /\ m \in 1..12
    /\ d \in 1..DaysIn(y, m)

Pow10(k) == IF k = 0 THEN 1 ELSE IF k = 1 THEN 10 ELSE IF k = 2 THEN 100
            ELSE IF k = 3 THEN 1000 ELSE 10000

\* n written with exactly w digits
Pad(n, w) == [i \in 1..w |-> (n \div Pow10(w - i)) % 10]

NumDigits(n) == IF n < 10 THEN 1 ELSE IF n < 100 THEN 2
                ELSE IF n < 1000 THEN 3 ELSE 4

RECURSIVE Val(_)
Val(ds) == IF ds = <<>> THEN 0
           ELSE 10 * Val(SubSeq(ds, 1, Len(ds) - 1)) + ds[Len(ds)]

\* dt.strftime("%Y-%m-%d"): %m and %d are two digits; %Y is the C library's,
\* four digits where it zero-pads and the bare number where it does not
strftime(y, m, d) ==
    << IF pad_year THEN Pad(y, 4) ELSE Pad(y, NumDigits(y)), Pad(m, 2), Pad(d, 2) >>

\* datetime.strptime(s, "%Y-%m-%d") succeeds: %Y is exactly four digits,
\* %m and %d one or two, and the numbers form a calendar date
strptime_ok(s) ==
    /\ Len(s) = 3
    /\ Len(s[1]) = 4
    /\ Len(s[2]) \in 1..2
    /\ Len(s[3]) \in 1..2
    /\ ValidYMD(Val(s[1]), Val(s[2]), Val(s[3]))

\* datetime.fromisoformat(s) succeeds on a YYYY-MM-DD string
fromisoformat_ok(s) ==
    /\ Len(s) = 3
    /\ Len(s[1]) = 4 /\ Len(s[2]) = 2 /\ Len(s[3]) = 2
    /\ ValidYMD(Val(s[1]), Val(s[2]), Val(s[3]))

\* WeatherAPI._format_date
format_date(iso_date) ==
    IF iso_date = <<>> THEN None
    ELSE IF strptime_ok(iso_date) THEN Some(iso_date)
    ELSE IF fromisoformat_ok(iso_date)
         THEN Some(strftime(Val(iso_date[1]), Val(iso_date[2]), Val(iso_date[3])))
         ELSE None

(***************************** texts ***************************************)
\* A candidate text, by what the code's regular expressions find in it:
\*   mn  first "MonthName Day[, Year]" match: <<>>, <<month, day>> or
\*       <<month, day, year>>
\*   sl  first "M/D/YYYY" match: <<>> or <<month, day, year>>
\*   rng first "H:MM am|pm - H:MM am|pm" match: <<>> or <<start, end>>
\*   one first "H:MM am|pm" match: <<>> or <<time>>
\*   href the link of the anchor the text came from, "" without one
Text(title, mn, sl, rng, one, href) ==
    [title |-> title, mn |-> mn, sl |-> sl, rng |-> rng, one |-> one, href |-> href]

TextSamples == {
    Text("December 2, 2025 Exams 9:00 am - 11:00 am", <<12, 2, 2025>>, <<>>,
         <<"9:00 am", "11:00 am">>, <<"9:00 am">>, ""),
    Text("Game 12/3/2025 7:00 pm", <<>>, <<12, 3, 2025>>, <<>>, <<"7:00 pm">>,
         "/sports/game"),
    Text("February 30 Meeting @ Library", <<2, 30>>, <<>>, <<>>, <<>>, ""),
    Text("Founding 1/2/0999", <<>>, <<1, 2, 999>>, <<>>, <<>>, "") }

\* datetime.now().year at the calls this model makes
NowYears == {2025}

\* datetime.strptime("<Month> <day> <year>", "%B %d %Y") succeeds: %Y must be
\* four digits, so a year the f-string writes with fewer does not parse
strptime_BdY_ok(month, day, year) ==
    /\ NumDigits(year) = 4
    /\ ValidYMD(year, month, day)

\* `default_year or datetime.now().year`: None and 0 are both falsy
OrNow(default_year, now_year) ==
    IF default_year.some /\ default_year.val # 0 THEN default_year.val
    ELSE now_year

\* CampusEventScraper._parse_date(text, default_year): the month-name match
\* is tried first and returns; the slash match is tried only without one
parse_date(text, default_year, now_year) ==
    IF text.mn # <<>>
    THEN LET month == text.mn[1]
             day == text.mn[2]
             year == IF Len(text.mn) = 3 THEN text.mn[3]
                     ELSE OrNow(default_year, now_year)
         IN IF strptime_BdY_ok(month, day, year)
            THEN Some(strftime(year, month, day))
            ELSE None
    ELSE IF text.sl # <<>>
    THEN LET month == text.sl[1]
             day == text.sl[2]
             year == text.sl[3]
         IN IF ValidYMD(year, month, day)
            THEN Some(strftime(year, month, day))
            ELSE None
    ELSE None

\* CampusEventScraper._parse_time: a time string is the sequence of its pieces
parse_time(text) ==
    IF text.rng # <<>> THEN <<text.rng[1], " - ", text.rng[2]>>
    ELSE IF text.one # <<>> THEN <<text.one[1]>>
    ELSE <<>>

\* `iso_date or ''`
OrEmpty(r) == IF r.some /\ r.val # <<>> THEN r.val ELSE <<>>

(***************************** tables **************************************)
ACADEMIC_CAL_URL == "https://belmontabbeycollege.edu/academics/calendar/#fall-2025"
ATHLETICS_CAL_URL == "https://abbeyathletics.com/calendar?date=12/2/2025&vtype=month"

Event(id, title, date, time, location, description, source, url) ==
    [id |-> id, title |-> title, date |-> date, time |-> time,
     location |-> location, description |-> description, source |-> source,
     url |-> url]

Observation(id, event_id, date, temp_max, temp_min, weather_code, weather_text, raw) ==
    [id |-> id, event_id |-> event_id, date |-> date, provider |-> "open-meteo",
     temp_max |-> temp_max, temp_min |-> temp_min, weather_code |-> weather_code,
     weather_text |-> weather_text, raw_json |-> raw]

\* db/seed_data.py: the sample rows init_db writes into empty tables
SeedEvent ==
    Event(1, "Sample Campus Event", <<<<2, 0, 2, 5>>, <<1, 2>>, <<0, 2>>>>,
          <<"11:00 am", " - ", "12:00 pm">>, "Campus Quad",
          <<"This is a sample seeded event for testing">>, "seed", "")

SeedObservation ==
    Observation(1, 1, <<<<2, 0, 2, 5>>, <<1, 2>>, <<0, 2>>>>, 58, 42, 0, "Clear",
                [sample |-> "data"])

\* What an operation has done so far (kept for the properties):
\*   op, status   which operation, and "running" | "returned" | "raised"
\*   stages       the stages of scrape_all entered, in order
\*   base_events, base_api   rows committed when the operation began
\*   selected     candidates the calendar pages yielded
\*   inserted     the local counter `inserted`
\*   rejected     INSERTs the store refused
\*   groups       events_by_date, in iteration order: <<date, event ids>>
\*   outcome      per group: "todo" | "skipped" | "failed" | "raised" | "ok"
\*   fetches      outbound forecast requests made
\*   result       the value returned to the caller: <<>> is None
\*   printed      the count the closing print reports: <<>> when none was printed
\*   weather_raised  passes of scrape_weather's loop whose request raised
NoRun ==
    [op |-> "none", status |-> "none", stages |-> <<>>, base_events |-> 0,
     base_api |-> 0, selected |-> 0, inserted |-> 0, rejected |-> 0,
     groups |-> <<>>,
     outcome |-> <<>>, fetches |-> 0, result |-> <<>>, printed |-> <<>>,
     weather_raised |-> 0]

Init ==
    /\ \/ /\ external_events = <<SeedEvent>>    \* db/seed_data.py: seeded
          /\ api_data = <<SeedObservation>>
       \/ /\ external_events = <<>>             \* db/apply_schema.py: empty
          /\ api_data = <<>>
    /\ conn = "closed"
    /\ cur_events = <<>>
    /\ cur_api = <<>>
    /\ pc = "idle"
    /\ run = NoRun
    /\ scrapes = 0
    /\ pad_year \in BOOLEAN

(***************************** scrape_all **********************************)
\* The candidate lists a calendar page yields: none, or one of the texts
PageSamples == {<<>>} \cup {<<t>> : t \in TextSamples}

\* The record the scrapers build from a candidate (Event Record Builder)
BuildRow(id, line, source, page_url, now_year) ==
    Event(id, line.title, OrEmpty(parse_date(line, None, now_year)), parse_time(line),
          "", <<line.title>>, source,
          IF source = "abbey_athletics" /\ line.href # "" THEN line.href
          ELSE page_url)

\* InsertStep with a dedup key: a candidate equal in title, date and source
\* to a stored record is dropped
InsertStep_Dedup(st, line, source, page_url) ==
    {IF \E i \in 1..Len(st.rows) :
            /\ st.rows[i].title = line.title
            /\ st.rows[i].source = source
            /\ st.rows[i].date = OrEmpty(parse_date(line, None, now_year))
        THEN st
        ELSE [st EXCEPT !.rows = Append(@, BuildRow(Len(st.rows) + 1, line, source,
                                                   page_url, now_year)),
                        !.inserted = @ + 1] : now_year \in NowYears}
    \cup {[st EXCEPT !.rejected = @ + 1]}

\* One pass of the insert loop over [rows, inserted, rejected]: the INSERT
\* is accepted, or the store refuses it and it is printed and skipped
InsertStep(st, line, source, page_url) ==
    {[st EXCEPT !.rows = Append(@, BuildRow(Len(st.rows) + 1, line, source,
                                            page_url, now_year)),
                !.inserted = @ + 1] : now_year \in NowYears}
    \cup {[st EXCEPT !.rejected = @ + 1]}

\* The insert loop: every way it can end
RECURSIVE InsertLoop(_, _, _, _)
InsertLoop(st, items, source, page_url) ==
    IF items = <<>> THEN {st}
    ELSE UNION {InsertLoop(s2, Tail(items), source, page_url) :
                    s2 \in InsertStep(st, Head(items), source, page_url)}

\* routes/event_routes.py events(): scraper.scrape_all()
events_call ==
    /\ pc = "idle"
    /\ scrapes < MaxScrapes
    /\ scrapes' = scrapes + 1
    /\ pc' = "academic"
    /\ run' = [NoRun EXCEPT !.op = "scrape_all", !.status = "running",
                            !.base_events = Len(external_events),
                            !.base_api = Len(api_data)]
    /\ UNCHANGED <<external_events, api_data, conn, cur_events, cur_api, pad_year>>

\* A calendar scraper. requests.get and raise_for_status raise on a network
\* error, a timeout or a non-2xx answer, before the store is opened, and
\* nothing inside scrape_all catches them. Otherwise the page yields `items`;
\* the store is opened, the loop inserts, and commit and close follow.
scrape_calendar(stage, source, page_url, next) ==
    /\ pc = stage
    /\ \/ /\ pc' = "scrape_raised"
          /\ run' = [run EXCEPT !.stages = Append(@, stage), !.status = "raised"]
          /\ UNCHANGED external_events
       \/ \E items \in PageSamples :
             /\ Len(external_events) + Len(items) <= MaxEvents
             /\ \E end \in InsertLoop([rows |-> external_events, inserted |-> 0,
                                       rejected |-> 0], items, source, page_url) :
                   /\ external_events' = end.rows
                   /\ run' = [run EXCEPT !.stages = Append(@, stage),
                                         !.selected = @ + Len(items),
                                         !.inserted = @ + end.inserted,
                                         !.rejected = @ + end.rejected]
             /\ pc' = next
    /\ UNCHANGED <<api_data, conn, cur_events, cur_api, scrapes, pad_year>>

scrape_academic_calendar ==
    scrape_calendar("academic", "belmont_academic", ACADEMIC_CAL_URL, "athletics")

scrape_athletics_calendar ==
    scrape_calendar("athletics", "abbey_athletics", ATHLETICS_CAL_URL, "weather")

\* "No forecast available" or the text of the page's forecast card
WeatherSummaries == {"No forecast available"}

\* UpdateDescription with SET description = ' | Weather: ' || ?
UpdateDescription_Overwrite(rows, summary, title, date) ==
    [i \in 1..Len(rows) |->
        IF rows[i].title = title /\ rows[i].date = date
        THEN [rows[i] EXCEPT !.description = <<" | Weather: ", summary>>]
        ELSE rows[i]]

\* UPDATE external_events SET description = description || ' | Weather: ' || ?
\*  WHERE title = ? AND date = ?
UpdateDescription(rows, summary, title, date) ==
    [i \in 1..Len(rows) |->
        IF rows[i].title = title /\ rows[i].date = date
        THEN [rows[i] EXCEPT !.description = @ \o <<" | Weather: ", summary>>]
        ELSE rows[i]]

\* SELECT ... FROM external_events WHERE date != ''
SelectDated(rows) == SelectSeq(rows, LAMBDA e : e.date # <<>>)

\* One pass of scrape_weather's loop over [rows, raised]: the request
\* raises, which is caught inside the loop and printed, or the summary is
\* appended
WeatherStep(st, event) ==
    {[st EXCEPT !.raised = @ + 1]}
    \cup {[st EXCEPT !.rows = UpdateDescription(@, summary, event.title,
                                               event.date)] :
             summary \in WeatherSummaries}

\* The loop over the rows the SELECT returned: every way it can end
RECURSIVE WeatherLoop(_, _)
WeatherLoop(st, selected) ==
    IF selected = <<>> THEN {st}
    ELSE UNION {WeatherLoop(s2, Tail(selected)) :
                    s2 \in WeatherStep(st, Head(selected))}

\* scrape_weather: connect, select the dated events, loop, commit, close;
\* scrape_all then returns None
scrape_weather ==
    /\ pc = "weather"
    /\ \E end \in WeatherLoop([rows |-> external_events, raised |-> 0],
                               SelectDated(external_events)) :
          /\ external_events' = end.rows
          /\ run' = [run EXCEPT !.stages = Append(@, "weather"),
                                !.status = "returned",
                                !.weather_raised = end.raised]
    /\ pc' = "scrape_returned"
    /\ UNCHANGED <<api_data, conn, cur_events, cur_api, scrapes, pad_year>>

scrape_all ==
    \/ scrape_academic_calendar
    \/ scrape_athletics_calendar
    \/ scrape_weather

\* events(): `except Exception` prints what scrape_all raised; the page is
\* then rendered from the committed tables
events_finish ==
    /\ pc \in {"scrape_returned", "scrape_raised"}
    /\ pc' = "idle"
    /\ run' = NoRun
    /\ UNCHANGED <<external_events, api_data, conn, cur_events, cur_api,
                   scrapes, pad_year>>

(***************************** enrichment **********************************)
\* _weather_text_from_code with the fog range opened at its lower end
weather_text_from_code_Off(code) ==
    IF code = 0 THEN "Clear"
    ELSE IF code \in {1, 2, 3} THEN "Partly Cloudy"
    ELSE IF 45 < code /\ code <= 48 THEN "Fog"
    ELSE IF 51 <= code /\ code <= 67 THEN "Rain"
    ELSE IF 71 <= code /\ code <= 77 THEN "Snow/Ice"
    ELSE IF 80 <= code /\ code <= 82 THEN "Rain Showers"
    ELSE IF 95 <= code THEN "Thunderstorm"
    ELSE "Unknown"

\* WeatherAPI._weather_text_from_code
weather_text_from_code(code) ==
    IF code = 0 THEN "Clear"
    ELSE IF code \in {1, 2, 3} THEN "Partly Cloudy"
    ELSE IF 45 <= code /\ code <= 48 THEN "Fog"
    ELSE IF 51 <= code /\ code <= 67 THEN "Rain"
    ELSE IF 71 <= code /\ code <= 77 THEN "Snow/Ice"
    ELSE IF 80 <= code /\ code <= 82 THEN "Rain Showers"
    ELSE IF 95 <= code THEN "Thunderstorm"
    ELSE "Unknown"

\* The daily values of one forecast answer
Forecast(temp_max, temp_min, weathercode) ==
    [temp_max |-> temp_max, temp_min |-> temp_min, weathercode |-> weathercode]

Forecasts == {Forecast(58, 42, 0), Forecast(70, 55, 61)}

\* Grouping that keys on the event instead of the date: one group per row
GroupByDate_PerEvent(rows, acc) ==
    [i \in 1..Len(rows) |-> [date |-> rows[i].date, ids |-> <<rows[i].id>>]]

\* events_by_date.setdefault(date_iso, []).append(event_id) over the rows, in
\* order: the groups in the dict's (insertion) order
RECURSIVE GroupByDate(_, _)
GroupByDate(rows, acc) ==
    IF rows = <<>> THEN acc
    ELSE LET r == Head(rows)
             at == {i \in 1..Len(acc) : acc[i].date = r.date}
         IN IF at = {}
            THEN GroupByDate(Tail(rows),
                             Append(acc, [date |-> r.date, ids |-> <<r.id>>]))
            ELSE LET i == CHOOSE i \in at : TRUE
                 IN GroupByDate(Tail(rows),
                                [acc EXCEPT ![i].ids = Append(@, r.id)])

\* fetch_weather_for_date's return value on an answer with the daily fields
ParseForecast(f) ==
    [temp_max |-> f.temp_max, temp_min |-> f.temp_min,
     weather_code |-> f.weathercode,
     weather_text |-> weather_text_from_code(f.weathercode), raw |-> f]

SeqToSet(q) == {q[i] : i \in 1..Len(q)}

\* The INSERT loop with `inserted += 1` after the try instead of inside it:
\* a refused INSERT is counted too
RECURSIVE InsertObservations_CountAll(_, _, _, _, _)
InsertObservations_CountAll(st, ids, formatted, result, refused) ==
    IF ids = <<>> THEN st
    ELSE IF Head(ids) \in refused
         THEN InsertObservations_CountAll(
                [st EXCEPT !.rejected = @ + 1, !.inserted = @ + 1], Tail(ids),
                formatted, result, refused)
         ELSE InsertObservations_CountAll(
                [st EXCEPT !.api = Append(@, Observation(Len(st.api) + 1,
                                     Head(ids), formatted, result.temp_max,
                                     result.temp_min, result.weather_code,
                                     result.weather_text, result.raw)),
                           !.inserted = @ + 1],
                Tail(ids), formatted, result, refused)

\* One pass of the loop that asks for the forecast once per event instead of
\* once per date: each event of the date gets the answer of its own request
EnrichStep_FetchPerEvent(st, group, answers) ==
    LET formatted == format_date(group.date)
        called == [st EXCEPT !.fetches = @ + Len(group.ids)]
        ObsFor(k, f, base) ==
            Observation(base + k, group.ids[k], formatted.val, f.temp_max,
                        f.temp_min, f.weathercode,
                        weather_text_from_code(f.weathercode), f)
    IN IF ~formatted.some
       THEN {[st EXCEPT !.outcome = Append(@, "skipped")]}
       ELSE {[called EXCEPT !.outcome = Append(@, "raised"), !.raised = TRUE]}
            \cup {[called EXCEPT !.outcome = Append(@, "failed")]}
            \cup {[called EXCEPT
                      !.outcome = Append(@, "ok"),
                      !.inserted = @ + Len(group.ids),
                      !.api = @ \o [k \in 1..Len(group.ids) |->
                                       ObsFor(k, fs[k], Len(st.api))]] :
                     fs \in [1..Len(group.ids) -> answers]}

\* The INSERT loop over the event ids of one date, over the run's state;
\* `refused` are the ids whose INSERT the store refuses
RECURSIVE InsertObservations(_, _, _, _, _)
InsertObservations(st, ids, formatted, result, refused) ==
    IF ids = <<>> THEN st
    ELSE IF Head(ids) \in refused
         THEN InsertObservations([st EXCEPT !.rejected = @ + 1], Tail(ids),
                                 formatted, result, refused)
         ELSE InsertObservations(
                [st EXCEPT !.api = Append(@, Observation(Len(st.api) + 1,
                                     Head(ids), formatted, result.temp_max,
                                     result.temp_min, result.weather_code,
                                     result.weather_text, result.raw)),
                           !.inserted = @ + 1],
                Tail(ids), formatted, result, refused)

\* One pass of the loop over events_by_date, over the run's state
\* [api, inserted, rejected, outcome, fetches, raised]: every way it can go.
\* requests.get, raise_for_status and resp.json() are outside
\* fetch_weather_for_date's try, and fetch_and_store_for_events catches
\* nothing around the call: what they raise leaves the run.
EnrichStep(st, group, answers) ==
    LET formatted == format_date(group.date)
        called == [st EXCEPT !.fetches = @ + 1]
    IN IF ~formatted.some
       THEN {[st EXCEPT !.outcome = Append(@, "skipped")]}
       ELSE {[called EXCEPT !.outcome = Append(@, "raised"), !.raised = TRUE]}
            \cup {[called EXCEPT !.outcome = Append(@, "failed")]}
            \cup {InsertObservations([called EXCEPT !.outcome = Append(@, "ok")],
                                     group.ids, formatted.val, ParseForecast(f),
                                     refused) :
                     f \in answers, refused \in SUBSET SeqToSet(group.ids)}

\* The loop: it ends when the groups are exhausted or a pass raised
RECURSIVE EnrichLoop(_, _, _)
EnrichLoop(st, groups, answers) ==
    IF groups = <<>> \/ st.raised THEN {st}
    ELSE UNION {EnrichLoop(s2, Tail(groups), answers) :
                    s2 \in EnrichStep(st, Head(groups), answers)}

\* WeatherAPI.fetch_and_store_for_events, called by api_page()
fetch_and_store_for_events(answers) ==
    /\ pc = "idle"
    /\ Len(api_data) + Len(SelectDated(external_events)) <= MaxObs
    /\ LET rows == SelectDated(external_events)
           groups == GroupByDate(rows, <<>>)
           start == [NoRun EXCEPT !.op = "enrich", !.groups = groups,
                                  !.base_events = Len(external_events),
                                  !.base_api = Len(api_data)]
       IN IF rows = <<>>
          THEN \* print, conn.close(), return
               /\ run' = [start EXCEPT !.status = "returned"]
               /\ pc' = "enrich_returned"
               /\ UNCHANGED <<api_data, conn, cur_events, cur_api>>
          ELSE \E end \in EnrichLoop([api |-> api_data, inserted |-> 0,
                                      rejected |-> 0, outcome |-> <<>>,
                                      fetches |-> 0, raised |-> FALSE],
                                     groups, answers) :
                  LET done == [start EXCEPT !.inserted = end.inserted,
                                            !.rejected = end.rejected,
                                            !.outcome = end.outcome,
                                            !.fetches = end.fetches]
                  IN IF end.raised
                     THEN \* the exception leaves the function: neither
                          \* commit nor close is reached
                          /\ run' = [done EXCEPT !.status = "raised"]
                          /\ pc' = "enrich_raised"
                          /\ conn' = "open"
                          /\ cur_events' = external_events
                          /\ cur_api' = end.api
                          /\ UNCHANGED api_data
                     ELSE \* conn.commit(), conn.close(), print the count;
                          \* the function ends without a return statement
                          /\ run' = [done EXCEPT !.status = "returned",
                                                 !.printed = <<end.inserted>>]
                          /\ pc' = "enrich_returned"
                          /\ api_data' = end.api
                          /\ UNCHANGED <<conn, cur_events, cur_api>>
    /\ UNCHANGED <<external_events, scrapes, pad_year>>

\* api_page(): `except Exception` prints what the run raised. The run's
\* connection was a local of the frame the exception left: it is released
\* with the frame, uncommitted, and the page is rendered from the committed
\* tables.
api_page_finish ==
    /\ pc \in {"enrich_returned", "enrich_raised"}
    /\ pc' = "idle"
    /\ conn' = "closed"
    /\ cur_events' = <<>>
    /\ cur_api' = <<>>
    /\ run' = NoRun
    /\ UNCHANGED <<external_events, api_data, scrapes, pad_year>>

Next ==
    \/ events_call
    \/ scrape_all
    \/ events_finish
    \/ fetch_and_store_for_events(Forecasts)
    \/ api_page_finish

Spec == Init /\ [][Next]_vars

(***************************** the code range ******************************)
\* Weather codes across every class boundary and gap of the table
CodeRange == (-3..100) \cup {999}

CodeForecasts == {Forecast(58, 42, c) : c \in CodeRange}

\* Enrichment alone, with forecasts over the whole code range
NextCodes ==
    \/ fetch_and_store_for_events(CodeForecasts)
    \/ api_page_finish

SpecCodes == Init /\ [][NextCodes]_vars

(***************************** the date forms ******************************)
\* First month-name matches of a text: none; with a year, without one; an
\* impossible day; 29 February with and without a leap year; a year the
\* four-digit group writes as 0999 or 0000
MonthNameForms ==
    {<<>>, <<12, 2, 2025>>, <<12, 2>>, <<2, 30>>, <<2, 29>>, <<2, 29, 2024>>,
     <<2, 29, 2025>>, <<12, 32, 2025>>, <<12, 0>>, <<12, 2, 999>>, <<12, 2, 0>>}

\* First M/D/YYYY matches of a text: none; valid; month 13; month 0; an
\* impossible day; a year written 0999 or 0000
SlashForms ==
    {<<>>, <<12, 3, 2025>>, <<13, 3, 2025>>, <<0, 3, 2025>>, <<2, 29, 2025>>,
     <<2, 29, 2024>>, <<1, 2, 999>>, <<1, 2, 0>>}

\* Texts with every pairing of the two forms
DateTexts ==
    {Text("text", mn, sl, <<>>, <<>>, "") : mn \in MonthNameForms, sl \in SlashForms}

\* The default_year argument: absent, or a year
DefaultYears == {None, Some(2024), Some(999)}

\* datetime.now().year at a call: a common year and a leap year
DateNowYears == {2025, 2028}

\* A caller is about to call _parse_date(text, default_year)
InitDates ==
    /\ external_events = <<>>
    /\ api_data = <<>>
    /\ conn = "closed"
    /\ cur_events = <<>>
    /\ cur_api = <<>>
    /\ scrapes = 0
    /\ pad_year \in BOOLEAN
    /\ pc = "parse_date"
    /\ \E text \in DateTexts, default_year \in DefaultYears,
          now_year \in DateNowYears :
          run = [op |-> "_parse_date", status |-> "running", text |-> text,
                 default_year |-> default_year, now_year |-> now_year,
                 result |-> None]

\* The call returns
parse_date_return ==
    /\ pc = "parse_date"
    /\ pc' = "parsed"
    /\ run' = [run EXCEPT !.status = "returned",
                          !.result = parse_date(run.text, run.default_year,
                                                run.now_year)]
    /\ UNCHANGED <<external_events, api_data, conn, cur_events, cur_api,
                   scrapes, pad_year>>

NextDates == parse_date_return

SpecDates == InitDates /\ [][NextDates]_vars

(***************************** properties **********************************)
\* A string that is a calendar date written YYYY-MM-DD
IsIsoDate(s) ==
    /\ Len(s) = 3
    /\ Len(s[1]) = 4 /\ Len(s[2]) = 2 /\ Len(s[3]) = 2
    /\ ValidYMD(Val(s[1]), Val(s[2]), Val(s[3]))

IsPrefix(a, b) == Len(a) <= Len(b) /\ SubSeq(b, 1, Len(a)) = a

Ended(op) == run.op = op /\ run.status \in {"returned", "raised"}

\* The rows the current operation has added to the committed api_data
NewObs == SubSeq(api_data, run.base_api + 1, Len(api_data))

\* The positions of the groups of the run with the given outcome
GroupsWith(o) == {i \in 1..Len(run.outcome) : run.outcome[i] = o}

\* The rows of obs that belong to group g of the run
ObsOfGroup(obs, g) ==
    {k \in 1..Len(obs) : obs[k].event_id \in SeqToSet(run.groups[g].ids)}

AllFetchesSucceeded ==
    \A i \in 1..Len(run.outcome) : run.outcome[i] \notin {"failed", "raised"}

DatedEvents == {i \in 1..Len(external_events) : external_events[i].date # <<>>}

IsoDatedEvents ==
    {i \in 1..Len(external_events) : IsIsoDate(external_events[i].date)}

DistinctIds(obs) ==
    \A i, j \in 1..Len(obs) : i # j => obs[i].event_id # obs[j].event_id

\* C1: when an enrichment run has ended, whatever fetches failed, every date
\* of the run was processed, a date whose fetch did not succeed contributed
\* no observation, and the observations persisted by the run are exactly one
\* per event of each date whose fetch succeeded. (Stated for the runs in
\* which the store refused no insert.)
C1_FetchFailureIsolation ==
    (Ended("enrich") /\ run.rejected = 0) =>
        /\ Len(run.outcome) = Len(run.groups)
        /\ \A g \in 1..Len(run.groups) :
              Cardinality(ObsOfGroup(NewObs, g)) =
                  IF g \in GroupsWith("ok") THEN Len(run.groups[g].ids) ELSE 0
        /\ DistinctIds(NewObs)

\* C2, as claimed: in a run where every fetch succeeds, the fetches number
\* the distinct non-empty dates of the stored events and the observations
\* written are exactly one per dated event.
C2_OneFetchPerDate_AsClaimed ==
    (pc = "enrich_returned" /\ AllFetchesSucceeded) =>
        /\ run.fetches = Cardinality({external_events[i].date : i \in DatedEvents})
        /\ Len(NewObs) = Cardinality(DatedEvents)
        /\ {NewObs[k].event_id : k \in 1..Len(NewObs)} =
               {external_events[i].id : i \in DatedEvents}

\* C2, amended: in a run where every fetch succeeds, the fetches number the
\* distinct stored dates that are valid ISO dates (a date that does not
\* normalise is skipped without a fetch), and the observations written are
\* one per event on those dates whose insert the store accepted: at most one
\* per event id, and exactly one per such event when no insert was refused.
C2_OneFetchPerDate ==
    (pc = "enrich_returned" /\ AllFetchesSucceeded) =>
        /\ run.fetches =
               Cardinality({external_events[i].date : i \in IsoDatedEvents})
        /\ Len(NewObs) = Cardinality(IsoDatedEvents) - run.rejected
        /\ DistinctIds(NewObs)
        /\ {NewObs[k].event_id : k \in 1..Len(NewObs)} \subseteq
               {external_events[i].id : i \in IsoDatedEvents}

\* C2 witness: a run with every fetch successful and no refusal that served
\* two events of one date with one fetch
C2_Witness ==
    /\ pc = "enrich_returned" /\ AllFetchesSucceeded /\ run.rejected = 0
    /\ run.fetches = 1
    /\ Len(NewObs) = 2

\* C3: a scrape_all call that has ended has returned, not raised, and has
\* entered its three stages in order.
C3_NoFatalErrorPath ==
    Ended("scrape_all") =>
        /\ run.status = "returned"
        /\ run.stages = <<"academic", "athletics", "weather">>

SameWeather(a, b) ==
    /\ a.temp_max = b.temp_max
    /\ a.temp_min = b.temp_min
    /\ a.weather_code = b.weather_code
    /\ a.weather_text = b.weather_text

\* Observations of one date agree on the weather and differ in event_id
FanOut(obs) ==
    \A i, j \in 1..Len(obs) :
        (i # j /\ obs[i].date = obs[j].date) =>
            SameWeather(obs[i], obs[j]) /\ obs[i].event_id # obs[j].event_id

\* C4, as claimed: in every state of the observation store, observations of
\* one date agree on the weather fields and differ in event_id.
C4_SameDateSameWeather_AsClaimed == FanOut(api_data)

\* C4, amended: among the observations one enrichment run wrote, those of
\* one date agree on temp_max, temp_min, weather_code and weather_text and
\* differ in event_id.
C4_SameDateSameWeather == (pc = "enrich_returned") => FanOut(NewObs)

\* C4 witness: a run wrote two observations of one date
C4_Witness ==
    /\ pc = "enrich_returned"
    /\ \E i, j \in 1..Len(NewObs) : i # j /\ NewObs[i].date = NewObs[j].date

\* C5, as claimed: the run returns the number of observations it wrote.
C5_ReturnsCount_AsClaimed ==
    (pc = "enrich_returned") => run.result = <<Len(NewObs)>>

\* C5, amended: the run returns None; a run that found dated events and
\* completed prints the number of observations it wrote (0 for a date
\* skipped or failed); a run that found no dated event prints no count and
\* writes nothing.
C5_PrintsCount ==
    (pc = "enrich_returned") =>
        /\ run.result = <<>>
        /\ IF run.groups = <<>>
           THEN run.printed = <<>> /\ NewObs = <<>>
           ELSE run.printed = <<Len(NewObs)>>

\* C5 witness: a completed run in which the fetch of one date failed and one
\* observation was written for another
C5_Witness ==
    /\ pc = "enrich_returned"
    /\ GroupsWith("failed") # {} /\ GroupsWith("ok") # {}
    /\ run.printed = <<1>>

\* C6: every stored event has a title and a source, and a date that is
\* empty or a valid YYYY-MM-DD calendar date.
C6_StoredDateEmptyOrIso ==
    \A i \in 1..Len(external_events) :
        /\ external_events[i].title # ""
        /\ external_events[i].source # ""
        /\ external_events[i].date = <<>> \/ IsIsoDate(external_events[i].date)

\* C7: no step changes or deletes a stored event record, except that its
\* description may grow at the end.
C7_Step ==
    \A i \in 1..Len(external_events) :
        /\ i <= Len(external_events')
        /\ LET a == external_events[i]
               b == external_events'[i]
           IN /\ a.id = b.id /\ a.title = b.title /\ a.date = b.date
              /\ a.time = b.time /\ a.location = b.location
              /\ a.source = b.source /\ a.url = b.url
              /\ IsPrefix(a.description, b.description)

C7_EventRecordsAppendOnly == [][C7_Step]_vars

\* C7 witness: an enrichment run has ended over a store in which a weather
\* pass had appended to a description
C7_Witness ==
    /\ pc \in {"enrich_returned", "enrich_raised"}
    /\ \E i \in 1..Len(external_events) : Len(external_events[i].description) > 1

FreshIds(rows) == \A i \in 1..Len(rows) : rows[i].id = i

ClassOf(c) ==
    CASE c = 0 -> "Clear"
      [] c \in 1..3 -> "Partly Cloudy"
      [] c \in 45..48 -> "Fog"
      [] c \in 51..67 -> "Rain"
      [] c \in 71..77 -> "Snow/Ice"
      [] c \in 80..82 -> "Rain Showers"
      [] c >= 95 -> "Thunderstorm"
      [] OTHER -> "Unknown"

\* C9: the code's classification is the table, on every code, and every
\* stored observation's weather_text is the table's label of its
\* weather_code.
C9_WeatherCodeClassification ==
    /\ \A c \in CodeRange : weather_text_from_code(c) = ClassOf(c)
    /\ \A k \in 1..Len(api_data) :
          api_data[k].weather_text = ClassOf(api_data[k].weather_code)

\* C9 witness: a run stored an observation whose code lies in a gap of the
\* table
C9_Witness ==
    /\ pc = "enrich_returned"
    /\ \E k \in 1..Len(NewObs) :
          NewObs[k].weather_code \in 83..94 /\ NewObs[k].weather_text = "Unknown"

\* C10: when a pipeline operation has ended, its connection is closed and
\* every row it inserted is committed.
C10_ConnectionReleased ==
    /\ Ended("enrich") =>
          conn = "closed" /\ Len(api_data) = run.base_api + run.inserted
    /\ (run.op = "scrape_all") =>
          conn = "closed" /\ Len(external_events) = run.base_events + run.inserted

\* The date the rule order of section 4.1 gives: the first month-name form
\* alone when there is one (its year, else the fallback year, else the
\* current year), else the first M/D/YYYY form, else nothing; nothing when
\* the month, day and year are not a calendar date
RuleOrderDate(text, default_year, now_year) ==
    IF text.mn # <<>>
    THEN LET year == IF Len(text.mn) = 3 THEN text.mn[3]
                     ELSE IF default_year.some THEN default_year.val
                     ELSE now_year
         IN IF ValidYMD(year, text.mn[1], text.mn[2])
            THEN Some(<<Pad(year, 4), Pad(text.mn[1], 2), Pad(text.mn[2], 2)>>)
            ELSE None
    ELSE IF text.sl # <<>>
    THEN IF ValidYMD(text.sl[3], text.sl[1], text.sl[2])
         THEN Some(<<Pad(text.sl[3], 4), Pad(text.sl[1], 2), Pad(text.sl[2], 2)>>)
         ELSE None
    ELSE None

\* C11: the result of _parse_date is the date the rule order gives (the
\* first month-name form alone decides when there is one, the first
\* M/D/YYYY form only when there is none, null with neither or with an
\* impossible date), and is therefore always null or a valid YYYY-MM-DD date.
C11_RuleOrder ==
    pc = "parsed" =>
        /\ run.result = RuleOrderDate(run.text, run.default_year, run.now_year)
        /\ (run.result.some => IsIsoDate(run.result.val))

\* description grew by exactly one " | Weather: <summary>" suffix
OneSuffix(before, after) ==
    /\ Len(after.description) = Len(before.description) + 2
    /\ IsPrefix(before.description, after.description)
    /\ after.description[Len(before.description) + 1] = " | Weather: "
    /\ after = [before EXCEPT !.description = after.description]

C12_Step ==
    (pc = "weather" /\ pc' = "scrape_returned" /\ run'.weather_raised = 0) =>
        /\ Len(external_events') = Len(external_events)
        /\ \A i \in 1..Len(external_events) :
              IF external_events[i].date # <<>>
              THEN OneSuffix(external_events[i], external_events'[i])
              ELSE external_events'[i] = external_events[i]

\* C12: one scrape_weather pass in which no forecast request raised appends
\* the " | Weather: <summary>" suffix exactly once to the description of
\* every stored event with a non-empty date and leaves every event with an
\* empty date unchanged, whatever the store holds, events equal in title and
\* date included.
C12_WeatherOncePerEvent == [][C12_Step]_vars

====
